---------------------------- MODULE Spec2Model ----------------------------
(***************************************************************************)
(* Model of the multi-color-relief application (src/App.tsx): the palette  *)
(* quantizer and ditherer of processImage, the height assigner, the layer  *)
(* handlers of the App component, the mesh-building effect, generateSTL    *)
(* and handleDownload.                                                     *)
(*                                                                         *)
(* Conventions.                                                            *)
(*  - Arrays are TLA+ sequences, so position p of the code (0-based) is    *)
(*    index p+1 here.  Layer ids and index-map values keep the code's      *)
(*    0-based values.                                                      *)
(*  - Lengths (layer heights, model width, vertex coordinates) are         *)
(*    integers in units of 0.00000025 mm, so that the 6-decimal            *)
(*    rounding of addVertex's key is a real rounding (4 units per          *)
(*    0.000001 mm).  The JavaScript value NaN is the reserved value NaN.   *)
(*  - Math.random() is a nondeterministic choice.                          *)
(***************************************************************************)
EXTENDS Integers, Sequences, FiniteSets, TLC

VARIABLES
    imageSrc,           \* useState imageSrc: NULL or the uploaded image
    settings,           \* useState settings
    processedData,      \* useState processedData: NULL or the result of processImage
    layers,             \* useState layers: NULL or a sequence of Layer
    userOrderedLayers,  \* useState userOrderedLayers
    geometryData,       \* useState geometryData: NULL or the mesh
    isLoading,          \* useState isLoading
    draggedIndex,       \* useState draggedIndex: NULL or a position (0-based)
    pc,                 \* where the pending handleProcess/processImage call is
    job,                \* what the pending handleProcess closure captured
    km,                 \* the locals of processImage's img.onload while it runs
    used,               \* how many user actions of each bounded kind have run
    download            \* what handleDownload last handed to the browser, or NULL

vars == <<imageSrc, settings, processedData, layers, userOrderedLayers,
          geometryData, isLoading, draggedIndex, pc, job, km, used, download>>

\* null, for the state that holds an object; a null array is NoLayers (the
\* code never holds an empty array of layers) and a null index is NoIndex.
NULL == [null |-> TRUE]

NoLayers == <<>>

NoIndex == -1

(***************************************************************************)
(* Bounds of the model.                                                    *)
(***************************************************************************)
MaxColors == 4          \* numColors ranges over 2..MaxColors (2..16 in the UI)
MaxPixels == 3          \* quantizer inputs have at most MaxPixels pixels
MaxUploads == 1         \* image uploads in one session of the application
MaxRuns == 2            \* clicks on the process button in one session
MaxEdits == 2           \* changes of a setting or of the layers in one session

(***************************************************************************)
(* Program constants.                                                      *)
(***************************************************************************)
MAX_DIM == 256

SAMPLE_SIZE == 10000

MAX_ITERATIONS == 30

(***************************************************************************)
(* Generic helpers.                                                        *)
(***************************************************************************)
Range(s) == { s[i] : i \in DOMAIN s }

Min2(a, b) == IF a < b THEN a ELSE b

Max2(a, b) == IF a > b THEN a ELSE b

Abs(a) == IF a < 0 THEN -a ELSE a

\* Math.round for a quotient n/d with d > 0: the nearest integer, halves up.
RoundDiv(n, d) == (2 * n + d) \div (2 * d)

(***************************************************************************)
(* Colours.                                                                *)
(***************************************************************************)
\* colorDistance compares as its square does (sqrt is strictly monotonic).
colorDistanceSq(c1, c2) ==
    (c1[1] - c2[1]) * (c1[1] - c2[1]) + (c1[2] - c2[2]) * (c1[2] - c2[2])
      + (c1[3] - c2[3]) * (c1[3] - c2[3])

\* brightness, times 1000: 0.299 R + 0.587 G + 0.114 B.
brightness(c) == 299 * c[1] + 587 * c[2] + 114 * c[3]

\* The two hexadecimal digits of one channel.
HexByte(v) == <<v \div 16, v % 16>>

\* rgbToHex: the six hexadecimal digits after the '#', most significant first.
rgbToHex(r, g, b) == HexByte(r) \o HexByte(g) \o HexByte(b)

\* parseInt(hex.substring(i, i+2), 16) on the digits of a colour input's value.
parseHexByte(hex, i) == 16 * hex[i] + hex[i + 1]

(***************************************************************************)
(* Palette Quantizer: the k-means part of processImage's img.onload.       *)
(***************************************************************************)
\* Fixed-stride subsampling to at most SAMPLE_SIZE samples.
samplePixelsOf(pixels) ==
    IF Len(pixels) > SAMPLE_SIZE
    THEN LET step == Len(pixels) \div SAMPLE_SIZE
         IN  [i \in 1..SAMPLE_SIZE |-> pixels[(((i - 1) * step) % Len(pixels)) + 1]]
    ELSE pixels

\* A scan in which the last centroid at the least distance wins.
lastNearest(color, centroids) ==
    CHOOSE c \in 1..Len(centroids) :
        \A d \in 1..Len(centroids) :
            /\ d < c => colorDistanceSq(color, centroids[d]) >= colorDistanceSq(color, centroids[c])
            /\ d > c => colorDistanceSq(color, centroids[d]) > colorDistanceSq(color, centroids[c])

\* The scan "if (dist < minDist)" over the centroids: the first centroid at
\* the least distance wins.  The result is the 1-based position.
nearestCentroid(color, centroids) ==
    CHOOSE c \in 1..Len(centroids) :
        \A d \in 1..Len(centroids) :
            /\ d < c => colorDistanceSq(color, centroids[d]) > colorDistanceSq(color, centroids[c])
            /\ d > c => colorDistanceSq(color, centroids[d]) >= colorDistanceSq(color, centroids[c])

\* sampleAssignments after the assignment loop of one iteration.
sampleAssignmentsOf(samples, centroids) ==
    [p \in 1..Len(samples) |-> nearestCentroid(samples[p], centroids)]

RECURSIVE SumUpTo(_, _)
SumUpTo(f, n) == IF n = 0 THEN 0 ELSE f[n] + SumUpTo(f, n - 1)

\* counts[c] of one iteration.
clusterCount(assign, c) ==
    Cardinality({p \in DOMAIN assign : assign[p] = c})

\* newCentroids[c][ch] of one iteration: the channel sum of the cluster.
clusterSum(samples, assign, c, ch) ==
    SumUpTo([p \in 1..Len(samples) |-> IF assign[p] = c THEN samples[p][ch] ELSE 0],
            Len(samples))

\* The clusters that one iteration finds empty, which it reseeds.
emptyClusters(samples, centroids) ==
    LET assign == sampleAssignmentsOf(samples, centroids)
    IN  {c \in 1..Len(centroids) : clusterCount(assign, c) = 0}

\* The centroid update of one iteration.  reseed[c] is the sample index that
\* Math.random() yields for the empty cluster c.
updateCentroids(samples, centroids, reseed) ==
    LET assign == sampleAssignmentsOf(samples, centroids)
        mean(c) == LET n == clusterCount(assign, c)
                   IN  <<RoundDiv(clusterSum(samples, assign, c, 1), n),
                         RoundDiv(clusterSum(samples, assign, c, 2), n),
                         RoundDiv(clusterSum(samples, assign, c, 3), n)>>
        next == [c \in 1..Len(centroids) |->
                    IF clusterCount(assign, c) > 0 THEN mean(c) ELSE samples[reseed[c]]]
    IN  [centroids |-> next,
         moved |-> \E c \in 1..Len(centroids) :
                      \/ clusterCount(assign, c) = 0
                      \/ colorDistanceSq(next[c], centroids[c]) > 1]

\* Insertion of c behind every entry that is not brighter than it.
InsertByBrightness(sorted, c) ==
    LET k == Cardinality({i \in DOMAIN sorted : brightness(sorted[i]) <= brightness(c)})
    IN  SubSeq(sorted, 1, k) \o <<c>> \o SubSeq(sorted, k + 1, Len(sorted))

\* The centroids in the order the clustering loop left them: what the
\* palette would be without the sort.
leftUnsorted(s) == s

\* centroids.sort((a, b) => brightness(a) - brightness(b)): ascending, stable.
RECURSIVE sortByBrightness(_)
sortByBrightness(s) ==
    IF s = <<>> THEN <<>>
    ELSE InsertByBrightness(sortByBrightness(SubSeq(s, 1, Len(s) - 1)), s[Len(s)])

\* colorToSortedIndexMap.get(JSON.stringify(color)) ?? 0: a later entry of
\* the sorted palette overwrites an earlier one of the same colour.
colorToSortedIndex(color, sorted) ==
    LET hits == {i \in DOMAIN sorted : sorted[i] = color}
    IN  IF hits = {} THEN 0
        ELSE (CHOOSE i \in hits : \A j \in hits : j <= i) - 1

\* findClosestColor on whole-number colours.
findClosestColor(color, unsortedCentroids) ==
    unsortedCentroids[nearestCentroid(color, unsortedCentroids)]

(***************************************************************************)
(* Edge Detector (the settings.edgePreservation block).  Grey values are   *)
(* whole luminance units and edge strengths are thousandths (0..1000).     *)
(***************************************************************************)
\* Math.sqrt, rounded down to a whole number.
ISqrt(n) == CHOOSE r \in 0..n : r * r <= n /\ (r + 1) * (r + 1) > n

\* getGray(i) for the 0-based pixel index i: 0 outside the buffer.
getGray(pixels, i) ==
    IF i < 0 \/ i >= Len(pixels) THEN 0 ELSE RoundDiv(brightness(pixels[i + 1]), 1000)

\* Whether (x, y) is inside the ring of border pixels both loops skip.
IsInterior(x, y, width, height) ==
    x >= 1 /\ x < width - 1 /\ y >= 1 /\ y < height - 1

\* edgeMap[idx] after the Sobel pass: min(1, magnitude / 200).
sobelStrength(pixels, width, height, x, y) ==
    IF ~IsInterior(x, y, width, height) THEN 0
    ELSE LET g(dx, dy) == getGray(pixels, (y + dy) * width + (x + dx))
             gx == -g(-1, -1) + g(1, -1) - 2 * g(-1, 0) + 2 * g(1, 0) - g(-1, 1) + g(1, 1)
             gy == -g(-1, -1) - 2 * g(0, -1) - g(1, -1) + g(-1, 1) + 2 * g(0, 1) + g(1, 1)
         IN  Min2(1000, 5 * ISqrt(gx * gx + gy * gy))

\* darkLineMap[idx]: a dark pixel whose four neighbours are much lighter.
darkLine(pixels, width, height, x, y) ==
    IF ~IsInterior(x, y, width, height) THEN 0
    ELSE LET g(dx, dy) == getGray(pixels, (y + dy) * width + (x + dx))
         IN  IF g(0, 0) < 100 /\ (g(0, -1) + g(0, 1) + g(-1, 0) + g(1, 0)) - 4 * g(0, 0) > 120
             THEN 1000 ELSE 0

\* The greatest element of a non-empty set of numbers.
SetMax(S) == CHOOSE m \in S : \A n \in S : n <= m

\* edgeMap[i_1d] as the ditherer reads it: the dilated map, zero when edge
\* preservation is off.
edgeStrengthAt(pixels, width, height, x, y, edgePreservation) ==
    IF ~edgePreservation \/ ~IsInterior(x, y, width, height) THEN 0
    ELSE Max2(SetMax({sobelStrength(pixels, width, height, x + dx, y + dy) :
                        dx \in {-1, 0, 1}, dy \in {-1, 0, 1}}),
              darkLine(pixels, width, height, x, y))

(***************************************************************************)
(* Ditherer.  The Float32 working buffer pixelsFloat is held in sixteenths *)
(* of a channel unit (0..4080), each sum rounded to the nearest sixteenth. *)
(***************************************************************************)
\* n/d to the nearest whole number, halves away from zero (d > 0).
RoundNear(n, d) ==
    LET a == Abs(n)
        q == (a \div d) + (IF 2 * (a % d) >= d THEN 1 ELSE 0)
    IN  IF n >= 0 THEN q ELSE -q

\* findClosestColor on a working colour in sixteenths.
findClosestColor16(color16, unsortedCentroids) ==
    LET dist(c) == colorDistanceSq(color16, <<16 * c[1], 16 * c[2], 16 * c[3]>>)
    IN  unsortedCentroids[
          CHOOSE c \in 1..Len(unsortedCentroids) :
            \A d \in 1..Len(unsortedCentroids) :
                /\ d < c => dist(unsortedCentroids[d]) > dist(unsortedCentroids[c])
                /\ d > c => dist(unsortedCentroids[d]) >= dist(unsortedCentroids[c])]

\* ditherStrength in thousandths: 0 above 0.3, else 1 - 3 * edgeStrength.
ditherStrength(edgeStrength) ==
    IF edgeStrength > 300 THEN 0 ELSE 1000 - 3 * edgeStrength

\* The four calls of distributeError, in order: <<dx, dy, sixteenths>>.
DiffusionKernel == << <<1, 0, 7>>, <<-1, 1, 3>>, <<0, 1, 5>>, <<1, 1, 1>> >>

\* A distribution that checks the row only: past the end of a row it goes on
\* in the next one.
distributeWrapping(buf, width, height, x, y, err, dx, dy, factor) ==
    IF y + dy >= 0 /\ y + dy < height /\ (y + dy) * width + (x + dx) + 1 \in DOMAIN buf
    THEN LET ni == (y + dy) * width + (x + dx) + 1
             add(ch) == Max2(0, Min2(4080, buf[ni][ch] + RoundNear(err[ch] * factor, 16)))
         IN  [buf EXCEPT ![ni] = <<add(1), add(2), add(3)>>]
    ELSE buf

\* distributeError(dx, dy, factor / 16) at pixel (x, y): err is the scaled
\* error per channel, in sixteenths.
distributeError(buf, width, height, x, y, err, dx, dy, factor) ==
    IF x + dx >= 0 /\ x + dx < width /\ y + dy >= 0 /\ y + dy < height
    THEN LET ni == (y + dy) * width + (x + dx) + 1
             add(ch) == Max2(0, Min2(4080, buf[ni][ch] + RoundNear(err[ch] * factor, 16)))
         IN  [buf EXCEPT ![ni] = <<add(1), add(2), add(3)>>]
    ELSE buf

RECURSIVE distributeAll(_, _, _, _, _, _, _)
distributeAll(buf, width, height, x, y, err, k) ==
    IF k > Len(DiffusionKernel) THEN buf
    ELSE distributeAll(
            distributeError(buf, width, height, x, y, err,
                            DiffusionKernel[k][1], DiffusionKernel[k][2], DiffusionKernel[k][3]),
            width, height, x, y, err, k + 1)

\* One pass of the body of the dithering loops, at the 0-based pixel index i.
\* acc holds pixelsFloat (buf), heightMap and processedImageData (image).
ditherPixel(acc, pixels, width, height, i, unsortedCentroids, sorted, edgePreservation) ==
    LET x == i % width
        y == i \div width
        oldColor == acc.buf[i + 1]
        newColor == findClosestColor16(oldColor, unsortedCentroids)
        strength == ditherStrength(edgeStrengthAt(pixels, width, height, x, y, edgePreservation))
        err == [ch \in 1..3 |-> RoundNear((oldColor[ch] - 16 * newColor[ch]) * strength, 1000)]
    IN  [buf |-> distributeAll(acc.buf, width, height, x, y, err, 1),
         heightMap |-> Append(acc.heightMap, colorToSortedIndex(newColor, sorted)),
         image |-> Append(acc.image, newColor)]

RECURSIVE ditherFrom(_, _, _, _, _, _, _, _)
ditherFrom(acc, pixels, width, height, i, unsortedCentroids, sorted, edgePreservation) ==
    IF i >= Len(pixels) THEN acc
    ELSE ditherFrom(
            ditherPixel(acc, pixels, width, height, i, unsortedCentroids, sorted, edgePreservation),
            pixels, width, height, i + 1, unsortedCentroids, sorted, edgePreservation)

\* The settings.dithering branch: the index map and the recoloured image.
quantizeAndDither(pixels, width, height, unsortedCentroids, sorted, edgePreservation) ==
    LET start == [buf |-> [p \in 1..Len(pixels) |->
                              <<16 * pixels[p][1], 16 * pixels[p][2], 16 * pixels[p][3]>>],
                  heightMap |-> <<>>, image |-> <<>>]
        end == ditherFrom(start, pixels, width, height, 0, unsortedCentroids, sorted,
                          edgePreservation)
    IN  [heightMap |-> end.heightMap, image |-> end.image]

\* An assignment that gives every pixel but the first the colour found for
\* the pixel before it.
quantizeShifted(pixels, unsortedCentroids, sorted) ==
    LET from(i) == pixels[IF i = 1 THEN 1 ELSE i - 1]
    IN  [heightMap |-> [i \in 1..Len(pixels) |->
                          colorToSortedIndex(findClosestColor(from(i), unsortedCentroids), sorted)],
         image |-> [i \in 1..Len(pixels) |-> findClosestColor(from(i), unsortedCentroids)]]

\* The else branch: nearest-colour assignment of every pixel on its own.
quantizeOnly(pixels, unsortedCentroids, sorted) ==
    [heightMap |-> [i \in 1..Len(pixels) |->
                      colorToSortedIndex(findClosestColor(pixels[i], unsortedCentroids), sorted)],
     image |-> [i \in 1..Len(pixels) |-> findClosestColor(pixels[i], unsortedCentroids)]]

(***************************************************************************)
(* Lengths.  One unit is 0.00000025 mm.                                    *)
(***************************************************************************)
\* The JavaScript number NaN (parseFloat of an emptied number input).
NaN == -2000000000

firstLayerThickness == 3200000      \* 0.8 mm

normalLayerThickness == 1600000     \* 0.4 mm

Hundredth == 40000                  \* 0.01 mm, the step of toFixed(2)

Millionth == 4                      \* 0.000001 mm, the step of toFixed(6)

\* parseFloat(v.toFixed(2)): v rounded to hundredths of a millimetre.
toFixed2(v) == RoundNear(v, Hundredth) * Hundredth

\* v.toFixed(6) as addVertex's key holds it: the sign the string shows (a
\* negative value keeps its '-' even when it rounds to zero) and the number
\* of millionths; "NaN" for NaN.
toFixed6(v) ==
    IF v = NaN THEN <<2, 0>>
    ELSE <<IF v < 0 THEN 1 ELSE 0, RoundNear(Abs(v), Millionth)>>

(***************************************************************************)
(* Height Assigner.                                                        *)
(***************************************************************************)
\* cumulativeHeight when the map callback reaches the 0-based position index.
RECURSIVE cumulativeHeight(_)
cumulativeHeight(index) ==
    IF index = 0 THEN firstLayerThickness
    ELSE cumulativeHeight(index - 1) + normalLayerThickness

\* An assigner that returns the layers with the heights they came with.
heightsKept(layersArray) == layersArray

recalculateLayerHeights(layersArray) ==
    [i \in 1..Len(layersArray) |->
        [layersArray[i] EXCEPT !.height = toFixed2(cumulativeHeight(i - 1))]]

\* Layers of the reversed palette with ids counting up.
layersCountingUp(centroids) ==
    [i \in 1..Len(centroids) |->
        LET c == centroids[Len(centroids) + 1 - i]
        IN  [id |-> i - 1,
             color |-> c,
             hex |-> rgbToHex(c[1], c[2], c[3]),
             height |-> toFixed2(cumulativeHeight(i - 1))]]

\* initialLayers of processImage, from the luminance-sorted centroids: the
\* reversed palette, ids counting down, heights by position.
initialLayers(centroids) ==
    [i \in 1..Len(centroids) |->
        LET c == centroids[Len(centroids) + 1 - i]
        IN  [id |-> Len(centroids) - 1 - (i - 1),
             color |-> c,
             hex |-> rgbToHex(c[1], c[2], c[3]),
             height |-> toFixed2(cumulativeHeight(i - 1))]]

(***************************************************************************)
(* Mesh Builder (the effect on processedData, layers and settings).        *)
(***************************************************************************)
\* modelWidth / width, and products with it; NaN stays NaN.
finalPixelSizeOf(modelWidth, width) ==
    IF modelWidth = NaN THEN NaN ELSE RoundNear(modelWidth, width)

\* px = (x - width / 2) * finalPixelSize
pxOf(x, width, finalPixelSize) ==
    IF finalPixelSize = NaN THEN NaN ELSE RoundNear((2 * x - width) * finalPixelSize, 2)

\* py = -(y - height / 2) * finalPixelSize
pyOf(y, height, finalPixelSize) ==
    IF finalPixelSize = NaN THEN NaN ELSE -RoundNear((2 * y - height) * finalPixelSize, 2)

\* idToCurrentIndex.get(id) ?? 0, as a 1-based position: forEach lets a later
\* layer of the same id overwrite an earlier one.
idToCurrentIndex(layersArray, id) ==
    LET hits == {i \in DOMAIN layersArray : layersArray[i].id = id}
    IN  IF hits = {} THEN 1 ELSE CHOOSE i \in hits : \A j \in hits : j <= i

\* layer?.height || 0: a height of 0 or NaN is falsy.
heightOrZero(h) == IF h = NaN \/ h = 0 THEN 0 ELSE h

\* An entry beyond the end of heightMap reads as undefined, which is no key
\* of idToCurrentIndex: ?? 0 takes position 0 then too.
getHeight(heightMap, width, height, layersArray, x, y) ==
    IF x < 0 \/ x >= width \/ y < 0 \/ y >= height THEN 0
    ELSE LET i == y * width + x + 1
             currentIndex == IF i \in DOMAIN heightMap
                             THEN idToCurrentIndex(layersArray, heightMap[i])
                             ELSE 1
         IN  heightOrZero(layersArray[currentIndex].height)

\* The key of vertexMap.
vertexKey(x, y, z) == <<toFixed6(x), toFixed6(y), toFixed6(z)>>

\* addVertex on the pair (positions, vertexMap); keys[i] is the key under
\* which vertex i - 1 was stored, index the (0-based) index returned.
addVertex(m, x, y, z) ==
    LET key == vertexKey(x, y, z)
        hits == {i \in DOMAIN m.keys : m.keys[i] = key}
    IN  IF hits # {}
        THEN [m EXCEPT !.index = (CHOOSE i \in hits : TRUE) - 1]
        ELSE [positions |-> Append(m.positions, <<x, y, z>>),
              keys |-> Append(m.keys, key),
              index |-> Len(m.positions),
              topIndices |-> m.topIndices,
              bottomIndices |-> m.bottomIndices]

\* The body of the vertex loops at the 0-based pixel index i.
addPixelVertices(m, heightMap, width, height, layersArray, finalPixelSize, i) ==
    LET x == i % width
        y == i \div width
        px == pxOf(x, width, finalPixelSize)
        py == pyOf(y, height, finalPixelSize)
        t == addVertex(m, px, py, getHeight(heightMap, width, height, layersArray, x, y))
        b == addVertex(t, px, py, 0)
    IN  [b EXCEPT !.topIndices = Append(m.topIndices, t.index),
                  !.bottomIndices = Append(m.bottomIndices, b.index)]

RECURSIVE addVerticesFrom(_, _, _, _, _, _, _)
addVerticesFrom(m, heightMap, width, height, layersArray, finalPixelSize, i) ==
    IF i >= width * height THEN m
    ELSE addVerticesFrom(
            addPixelVertices(m, heightMap, width, height, layersArray, finalPixelSize, i),
            heightMap, width, height, layersArray, finalPixelSize, i + 1)

\* grid[y][x] of topIndices or bottomIndices (kept row-major here).
At(grid, width, x, y) == grid[y * width + x + 1]

\* Flattening of a sequence of triangles into the index list.
RECURSIVE Flatten(_)
Flatten(tris) ==
    IF tris = <<>> THEN <<>> ELSE tris[1] \o Flatten(SubSeq(tris, 2, Len(tris)))

\* Top surface: two triangles per quad, rows outermost.
topTriangles(top, width, height) ==
    [k \in 1..(2 * (width - 1) * (height - 1)) |->
        LET q == (k - 1) \div 2
            x == q % (width - 1)
            y == q \div (width - 1)
            i0 == At(top, width, x, y)
            i1 == At(top, width, x + 1, y)
            i2 == At(top, width, x, y + 1)
            i3 == At(top, width, x + 1, y + 1)
        IN  IF k % 2 = 1 THEN <<i0, i1, i2>> ELSE <<i2, i1, i3>>]

\* A bottom surface without triangles.
noTriangles(bottom, width, height) == <<>>

\* Bottom surface.
bottomTriangles(bottom, width, height) ==
    [k \in 1..(2 * (width - 1) * (height - 1)) |->
        LET q == (k - 1) \div 2
            x == q % (width - 1)
            y == q \div (width - 1)
            i0 == At(bottom, width, x, y)
            i1 == At(bottom, width, x + 1, y)
            i2 == At(bottom, width, x, y + 1)
            i3 == At(bottom, width, x + 1, y + 1)
        IN  IF k % 2 = 1 THEN <<i0, i2, i1>> ELSE <<i1, i2, i3>>]

\* A row wall of one triangle per quad.
openRowWall(top, bottom, width, y, flip) ==
    [k \in 1..(width - 1) |->
        <<At(top, width, k - 1, y), At(top, width, k, y), At(bottom, width, k - 1, y)>>]

\* Side wall along grid row y (y = 0: "top edge", y = height - 1: "bottom
\* edge"); flip is the winding the loop at that row uses.
rowWall(top, bottom, width, y, flip) ==
    [k \in 1..(2 * (width - 1)) |->
        LET x == (k - 1) \div 2
            t0 == At(top, width, x, y)
            t1 == At(top, width, x + 1, y)
            b0 == At(bottom, width, x, y)
            b1 == At(bottom, width, x + 1, y)
        IN  IF flip
            THEN (IF k % 2 = 1 THEN <<t1, t0, b1>> ELSE <<b1, t0, b0>>)
            ELSE (IF k % 2 = 1 THEN <<t0, t1, b0>> ELSE <<b0, t1, b1>>)]

\* A column wall wound the same way on either side of the grid.
sameWindingWall(top, bottom, width, height, x, flip) ==
    [k \in 1..(2 * (height - 1)) |->
        LET y == (k - 1) \div 2
            t0 == At(top, width, x, y)
            t1 == At(top, width, x, y + 1)
            b0 == At(bottom, width, x, y)
            b1 == At(bottom, width, x, y + 1)
        IN  IF k % 2 = 1 THEN <<t0, t1, b0>> ELSE <<b0, t1, b1>>]

\* Side wall along grid column x (x = 0: "left edge", x = width - 1: "right
\* edge").
columnWall(top, bottom, width, height, x, flip) ==
    [k \in 1..(2 * (height - 1)) |->
        LET y == (k - 1) \div 2
            t0 == At(top, width, x, y)
            t1 == At(top, width, x, y + 1)
            b0 == At(bottom, width, x, y)
            b1 == At(bottom, width, x, y + 1)
        IN  IF flip
            THEN (IF k % 2 = 1 THEN <<t1, t0, b1>> ELSE <<b1, t0, b0>>)
            ELSE (IF k % 2 = 1 THEN <<t0, t1, b0>> ELSE <<b0, t1, b1>>)]

\* The four walls in the order the effect emits them.
wallTriangles(top, bottom, width, height) ==
    rowWall(top, bottom, width, 0, FALSE) \o rowWall(top, bottom, width, height - 1, TRUE)
      \o columnWall(top, bottom, width, height, 0, TRUE)
      \o columnWall(top, bottom, width, height, width - 1, FALSE)

\* Every triangle the effect emits, in order.
meshTriangles(top, bottom, width, height) ==
    topTriangles(top, width, height) \o bottomTriangles(bottom, width, height)
      \o wallTriangles(top, bottom, width, height)

\* Math.max(...layers.map(l => l.height), 0): NaN if any height is NaN.
maxLayerHeight(layersArray) ==
    IF \E i \in DOMAIN layersArray : layersArray[i].height = NaN THEN NaN
    ELSE SetMax({layersArray[i].height : i \in DOMAIN layersArray} \cup {0})

\* The value the effect hands to setGeometryData.  positions and indices are
\* the geometry's buffers; topIndices and bottomIndices are the effect's
\* vertex grids, kept to tell the surfaces apart.
buildGeometry(data, layersArray, modelWidth) ==
    LET fps == finalPixelSizeOf(modelWidth, data.width)
        m == addVerticesFrom([positions |-> <<>>, keys |-> <<>>, index |-> 0,
                              topIndices |-> <<>>, bottomIndices |-> <<>>],
                             data.heightMap, data.width, data.height, layersArray, fps, 0)
    IN  [positions |-> m.positions,
         indices |-> Flatten(meshTriangles(m.topIndices, m.bottomIndices, data.width, data.height)),
         topIndices |-> m.topIndices,
         bottomIndices |-> m.bottomIndices,
         width |-> modelWidth,
         height |-> IF fps = NaN THEN NaN ELSE fps * data.height,
         depth |-> maxLayerHeight(layersArray)]

\* The effect: it runs only when processedData and layers are both set, and
\* otherwise leaves geometryData as it was.
meshEffect(data, layersArray, sett, old) ==
    IF data # NULL /\ layersArray # NoLayers
    THEN buildGeometry(data, layersArray, sett.modelWidth)
    ELSE old

(***************************************************************************)
(* Inputs.                                                                 *)
(***************************************************************************)
Black == <<0, 0, 0>>

White == <<255, 255, 255>>

Red == <<255, 0, 0>>

Grey == <<128, 128, 128>>

\* A decoded image: its size and its pixels, row-major.
Image(w, h, px) == [width |-> w, height |-> h, pixels |-> px]

\* The images the application is given.
AppImages ==
    { Image(2, 2, <<Black, White, Red, Grey>>),
      Image(2, 1, <<Black, White>>) }

DefaultModelWidth == 400000000      \* modelWidth: 100 (mm)

\* Values of the modelWidth input: parseFloat of what was typed.
ModelWidthInputs == {DefaultModelWidth, 0, NaN}

\* Values of a layer's height input: 0, an emptied field, a quarter of a
\* millionth of a millimetre, 1 mm.
HeightInputs == {0, NaN, 1, 4000000}

\* Values of a layer's colour input, as hexadecimal digits: #0000ff, #ffffff.
ColorInputs == { <<0, 0, 0, 0, 15, 15>>, <<15, 15, 15, 15, 15, 15>> }

DefaultSettings ==
    [numColors |-> 4, modelWidth |-> DefaultModelWidth,
     dithering |-> TRUE, edgePreservation |-> FALSE]

\* The size of the image, kept as it is.
sourceSize(w, h) == [width |-> w, height |-> h]

\* The size processImage works on: the larger side is brought down to
\* MAX_DIM, the other side scaled with it and rounded.
scaledSize(w, h) ==
    IF w > h
    THEN (IF w > MAX_DIM THEN [width |-> MAX_DIM, height |-> RoundDiv(h * MAX_DIM, w)]
          ELSE [width |-> w, height |-> h])
    ELSE (IF h > MAX_DIM THEN [width |-> RoundDiv(w * MAX_DIM, h), height |-> MAX_DIM]
          ELSE [width |-> w, height |-> h])

(***************************************************************************)
(* The application.                                                        *)
(***************************************************************************)
Init ==
    /\ imageSrc = NULL
    /\ settings = DefaultSettings
    /\ processedData = NULL
    /\ layers = NoLayers
    /\ userOrderedLayers = NoLayers
    /\ geometryData = NULL
    /\ isLoading = FALSE
    /\ draggedIndex = NoIndex
    /\ pc = "idle"
    /\ job = NULL
    /\ km = NULL
    /\ used = [uploads |-> 0, runs |-> 0, edits |-> 0, heightEdits |-> 0]
    /\ download = NULL

\* The event loop can run a handler: no img.onload is in the middle of its
\* (synchronous) work.
ThreadFree == pc \in {"idle", "loading"}

\* A user event can reach a control: the thread is free and no drag is under
\* way (a drag delivers only drag events until it ends).
CanInteract == ThreadFree /\ draggedIndex = NoIndex

\* The new state of geometryData once the effects of a render have run.
Rendered(data, layersArray, sett) == meshEffect(data, layersArray, sett, geometryData)

\* FileUploader's onImageUpload = setImageSrc; the input is disabled while
\* isLoading.
UploadImage(img) ==
    /\ CanInteract /\ ~isLoading
    /\ used.uploads < MaxUploads
    /\ imageSrc' = img
    /\ used' = [used EXCEPT !.uploads = @ + 1]
    /\ UNCHANGED <<settings, processedData, layers, userOrderedLayers, geometryData,
                   isLoading, draggedIndex, pc, job, km>>
    /\ UNCHANGED download

\* setSettings from one of the four inputs, each of them disabled without an
\* image and while isLoading.
ChangeSettings(next) ==
    /\ CanInteract /\ imageSrc # NULL /\ ~isLoading
    /\ used.edits < MaxEdits
    /\ next # settings
    /\ settings' = next
    /\ geometryData' = Rendered(processedData, layers, next)
    /\ used' = [used EXCEPT !.edits = @ + 1]
    /\ UNCHANGED <<imageSrc, processedData, layers, userOrderedLayers,
                   isLoading, draggedIndex, pc, job, km>>
    /\ UNCHANGED download
SetNumColors(n) == ChangeSettings([settings EXCEPT !.numColors = n])

SetModelWidth(w) == ChangeSettings([settings EXCEPT !.modelWidth = w])

SetDithering(b) == ChangeSettings([settings EXCEPT !.dithering = b])

SetEdgePreservation(b) == ChangeSettings([settings EXCEPT !.edgePreservation = b])

\* handleProcess up to its await: the button is disabled without an image
\* and while isLoading.  The callback holds the imageSrc, settings and
\* userOrderedLayers of the render it was created in.
HandleProcess ==
    /\ CanInteract /\ ~isLoading /\ imageSrc # NULL
    /\ used.runs < MaxRuns
    /\ isLoading' = TRUE
    /\ pc' = "loading"
    /\ job' = [imageSrc |-> imageSrc, settings |-> settings,
               userOrderedLayers |-> userOrderedLayers]
    /\ used' = [used EXCEPT !.runs = @ + 1]
    /\ UNCHANGED <<imageSrc, settings, processedData, layers, userOrderedLayers,
                   geometryData, draggedIndex, km>>
    /\ UNCHANGED download

\* The locals of img.onload when the centroid loop starts: the pixels of the
\* canvas (an image within MAX_DIM is drawn at its own size) and the samples.
onloadLocals(img) ==
    LET size == scaledSize(img.width, img.height)
    IN  [width |-> size.width, height |-> size.height,
         pixels |-> img.pixels,
         samplePixels |-> samplePixelsOf(img.pixels),
         centroids |-> <<>>, usedIndices |-> {}, iter |-> 0]

\* ctx.getImageData(0, 0, width, height) throws an IndexSizeError when the
\* width or the height is 0.  It is thrown inside img.onload, an event
\* handler: nothing catches it and the promise is neither resolved nor
\* rejected.
getImageDataThrows(img) ==
    LET size == scaledSize(img.width, img.height)
    IN  size.width = 0 \/ size.height = 0

\* What processImage resolves with, from the final centroids.
processedDataOf(k, sett) ==
    LET sorted == sortByBrightness(k.centroids)
        q == IF sett.dithering
             THEN quantizeAndDither(k.pixels, k.width, k.height, k.centroids, sorted,
                                    sett.edgePreservation)
             ELSE quantizeOnly(k.pixels, k.centroids, sorted)
    IN  [layers |-> initialLayers(sorted),
         processedImage |-> q.image,
         heightMap |-> q.heightMap,
         width |-> k.width,
         height |-> k.height]

\* idToNewLayer.get(id): the new layer of that id, if there is one.
HasNewLayer(newLayers, id) == \E i \in DOMAIN newLayers : newLayers[i].id = id

NewLayerOf(newLayers, id) ==
    newLayers[CHOOSE i \in DOMAIN newLayers :
                 /\ newLayers[i].id = id
                 /\ \A j \in DOMAIN newLayers : newLayers[j].id = id => j <= i]

\* updatedLayers of handleProcess: the user's order and heights, the new
\* colours.
updatedLayersOf(ordered, newLayers) ==
    [i \in 1..Len(ordered) |->
        IF HasNewLayer(newLayers, ordered[i].id)
        THEN [NewLayerOf(newLayers, ordered[i].id) EXCEPT !.height = ordered[i].height]
        ELSE ordered[i]]

\* Whether handleProcess keeps the order held by its closure.
keepsUserOrder(ordered, data) ==
    ordered # NoLayers /\ Len(ordered) = Len(data.layers)

\* The end of img.onload (resolve) and, with it, the rest of handleProcess,
\* for the value data that processImage resolves with.
Complete(data) ==
    /\ LET keep == keepsUserOrder(job.userOrderedLayers, data)
           newLayers == IF keep THEN updatedLayersOf(job.userOrderedLayers, data.layers)
                        ELSE data.layers
       IN  /\ processedData' = data
           /\ layers' = newLayers
           /\ userOrderedLayers' = IF keep THEN userOrderedLayers ELSE data.layers
           /\ geometryData' = Rendered(data, newLayers, settings)
    /\ isLoading' = FALSE
    /\ pc' = "idle"
    /\ job' = NULL
    /\ km' = NULL
    /\ UNCHANGED <<imageSrc, settings, draggedIndex, used>>

\* The centroids the centroid loop can end with: numColors samples at
\* pairwise distinct indices, in the order drawn.
initialCentroids(samples, numColors) ==
    { [i \in 1..numColors |-> samples[f[i]]] :
        f \in { g \in [1..numColors -> 1..Len(samples)] :
                  \A i, j \in 1..numColors : i # j => g[i] # g[j] } }

\* The centroids the clustering loop can end with, entered with the given
\* centroids after iter iterations.
RECURSIVE clusteringOutcomes(_, _, _)
clusteringOutcomes(samples, centroids, iter) ==
    IF iter >= MAX_ITERATIONS THEN {centroids}
    ELSE UNION { LET r == updateCentroids(samples, centroids, reseed)
                 IN  IF r.moved THEN clusteringOutcomes(samples, r.centroids, iter + 1)
                     ELSE {r.centroids} :
                 reseed \in [emptyClusters(samples, centroids) -> 1..Len(samples)] }

\* Every value processImage can resolve with, over the outcomes of its
\* random draws.
processImageOutcomes(k, sett) ==
    { processedDataOf([k EXCEPT !.centroids = final], sett) :
        final \in UNION { clusteringOutcomes(k.samplePixels, start, 0) :
                            start \in initialCentroids(k.samplePixels, sett.numColors) } }

\* img.onload as one step: the image has loaded, and the handler runs to its
\* end with some outcome of its random draws.  With fewer samples than
\* numColors the centroid loop never ends, and the thread stays in it; when
\* getImageData throws, the handler ends and the promise stays pending.
ProcessImage ==
    /\ pc = "loading"
    /\ draggedIndex = NoIndex
    /\ LET k == onloadLocals(job.imageSrc)
       IN  IF getImageDataThrows(job.imageSrc) \/ Len(k.samplePixels) < job.settings.numColors
           THEN /\ pc' = IF getImageDataThrows(job.imageSrc) THEN "uncaught" ELSE "hung"
                /\ UNCHANGED <<imageSrc, settings, processedData, layers, userOrderedLayers,
                               geometryData, isLoading, draggedIndex, job, km, used>>
           ELSE \E data \in processImageOutcomes(k, job.settings) : Complete(data)
    /\ UNCHANGED download

(***************************************************************************)
(* The layer handlers.                                                     *)
(***************************************************************************)
\* The ids of the rows the layer panel shows.
LayerIds == {layers[i].id : i \in DOMAIN layers}

\* currentLayers?.map(l => l.id === id ? {...l, height} : l) || null
withHeight(layersArray, id, h) ==
    [i \in 1..Len(layersArray) |->
        IF layersArray[i].id = id THEN [layersArray[i] EXCEPT !.height = h]
        ELSE layersArray[i]]

updateLayerHeight(id, h) ==
    /\ CanInteract /\ layers # NoLayers /\ id \in LayerIds
    /\ used.edits < MaxEdits
    /\ layers' = withHeight(layers, id, h)
    /\ userOrderedLayers' = withHeight(userOrderedLayers, id, h)
    /\ geometryData' = Rendered(processedData, layers', settings)
    /\ used' = [used EXCEPT !.edits = @ + 1, !.heightEdits = @ + 1]
    /\ UNCHANGED <<imageSrc, settings, processedData, isLoading, draggedIndex, pc, job, km>>
    /\ UNCHANGED download

\* A recolouring of every layer, whatever its id.
recolourAll(layersArray, id, hexColor) ==
    LET rgb == <<parseHexByte(hexColor, 1), parseHexByte(hexColor, 3), parseHexByte(hexColor, 5)>>
    IN  [i \in 1..Len(layersArray) |->
            [layersArray[i] EXCEPT !.color = rgb, !.hex = hexColor]]

\* currentLayers?.map(l => l.id === id ? {...l, color: rgb, hex} : l) || null
withColor(layersArray, id, hexColor) ==
    LET rgb == <<parseHexByte(hexColor, 1), parseHexByte(hexColor, 3), parseHexByte(hexColor, 5)>>
    IN  [i \in 1..Len(layersArray) |->
            IF layersArray[i].id = id
            THEN [layersArray[i] EXCEPT !.color = rgb, !.hex = hexColor]
            ELSE layersArray[i]]

updateLayerColor(id, hexColor) ==
    /\ CanInteract /\ layers # NoLayers /\ id \in LayerIds
    /\ used.edits < MaxEdits
    /\ layers' = withColor(layers, id, hexColor)
    /\ userOrderedLayers' = withColor(userOrderedLayers, id, hexColor)
    /\ geometryData' = Rendered(processedData, layers', settings)
    /\ used' = [used EXCEPT !.edits = @ + 1]
    /\ UNCHANGED <<imageSrc, settings, processedData, isLoading, draggedIndex, pc, job, km>>
    /\ UNCHANGED download

\* An exchange that loses one of the two entries.
halfSwap(a, i, j) == [a EXCEPT ![i] = a[j]]

\* [a[i], a[j]] = [a[j], a[i]] on 1-based positions.
Swap(a, i, j) == [a EXCEPT ![i] = a[j], ![j] = a[i]]

\* setLayers and setUserOrderedLayers with the same recalculated array.
SetReordered(newLayers) ==
    /\ used.edits < MaxEdits
    /\ layers' = recalculateLayerHeights(newLayers)
    /\ userOrderedLayers' = layers'
    /\ geometryData' = Rendered(processedData, layers', settings)
    /\ used' = [used EXCEPT !.edits = @ + 1]

\* moveLayerUp(index), index being the 0-based position of a row.
moveLayerUp(index) ==
    /\ CanInteract /\ layers # NoLayers /\ index \in 0..(Len(layers) - 1)
    /\ IF index = 0
       THEN UNCHANGED <<layers, userOrderedLayers, geometryData, used>>
       ELSE SetReordered(Swap(layers, index, index + 1))
    /\ UNCHANGED <<imageSrc, settings, processedData, isLoading, draggedIndex, pc, job, km>>
    /\ UNCHANGED download
moveLayerDown(index) ==
    /\ CanInteract /\ layers # NoLayers /\ index \in 0..(Len(layers) - 1)
    /\ IF index = Len(layers) - 1
       THEN UNCHANGED <<layers, userOrderedLayers, geometryData, used>>
       ELSE SetReordered(Swap(layers, index + 1, index + 2))
    /\ UNCHANGED <<imageSrc, settings, processedData, isLoading, draggedIndex, pc, job, km>>
    /\ UNCHANGED download

\* A drag starts on a row with the pointer, which the loading overlay keeps
\* from the rows while isLoading.
handleDragStart(index) ==
    /\ CanInteract /\ ~isLoading
    /\ layers # NoLayers /\ index \in 0..(Len(layers) - 1)
    /\ used.edits < MaxEdits
    /\ draggedIndex' = index
    /\ UNCHANGED <<imageSrc, settings, processedData, layers, userOrderedLayers,
                   geometryData, isLoading, pc, job, km, used>>
    /\ UNCHANGED download

\* A drop that writes the dragged layer over the one it is dropped on.
dropOver(a, from, to) == [a EXCEPT ![to + 1] = a[from + 1]]

\* newLayers.splice(from, 1) followed by newLayers.splice(to, 0, item), for
\* 0-based positions inside the array.
spliceMove(a, from, to) ==
    LET rest == SubSeq(a, 1, from) \o SubSeq(a, from + 2, Len(a))
    IN  SubSeq(rest, 1, to) \o <<a[from + 1]>> \o SubSeq(rest, to + 1, Len(rest))

handleDrop(dropIndex) ==
    /\ ThreadFree /\ layers # NoLayers /\ dropIndex \in 0..(Len(layers) - 1)
    /\ IF draggedIndex = NoIndex
       THEN UNCHANGED <<layers, userOrderedLayers, geometryData, used, draggedIndex>>
       ELSE /\ SetReordered(spliceMove(layers, draggedIndex, dropIndex))
            /\ draggedIndex' = NoIndex
    /\ UNCHANGED <<imageSrc, settings, processedData, isLoading, pc, job, km>>
    /\ UNCHANGED download
handleDragEnd ==
    /\ ThreadFree /\ draggedIndex # NoIndex
    /\ draggedIndex' = NoIndex
    /\ UNCHANGED <<imageSrc, settings, processedData, layers, userOrderedLayers,
                   geometryData, isLoading, pc, job, km, used>>
    /\ UNCHANGED download
Next ==
    \/ \E img \in AppImages : UploadImage(img)
    \/ \E n \in 2..MaxColors : SetNumColors(n)
    \/ \E w \in ModelWidthInputs : SetModelWidth(w)
    \/ \E b \in BOOLEAN : SetDithering(b)
    \/ \E b \in BOOLEAN : SetEdgePreservation(b)
    \/ HandleProcess
    \/ ProcessImage
    \/ \E id \in 0..(MaxColors - 1), h \in HeightInputs : updateLayerHeight(id, h)
    \/ \E id \in 0..(MaxColors - 1), hexColor \in ColorInputs : updateLayerColor(id, hexColor)
    \/ \E index \in 0..(MaxColors - 1) : moveLayerUp(index)
    \/ \E index \in 0..(MaxColors - 1) : moveLayerDown(index)
    \/ \E index \in 0..(MaxColors - 1) : handleDragStart(index)
    \/ \E index \in 0..(MaxColors - 1) : handleDrop(index)
    \/ handleDragEnd

Spec == Init /\ [][Next]_vars

(***************************************************************************)
(* processImage step by step: the image has loaded, and img.onload runs    *)
(* its centroid loop and its clustering loop one random draw at a time.    *)
(***************************************************************************)
NearBlack == <<1, 0, 0>>

DarkRed == <<2, 0, 0>>

\* The colours of the quantizer's inputs; NearBlack is as far from Black as
\* from DarkRed.
QuantColors == {Black, NearBlack, DarkRed, White}

\* Images whose canvas has no pixel: of width or height 0, or so thin that
\* the smaller side of the working size rounds to 0.
EmptyImages ==
    { Image(d[1], d[2], <<>>) :
        d \in {<<0, 0>>, <<0, 1>>, <<1, 0>>, <<3 * MAX_DIM, 1>>, <<1, 3 * MAX_DIM>>} }

\* Every image of at most MaxPixels pixels in those colours, and the images
\* without pixels.
QuantImages ==
    UNION { { Image(d[1], d[2], px) : px \in [1..(d[1] * d[2]) -> QuantColors] } :
              d \in { e \in (1..MaxPixels) \X (1..MaxPixels) : e[1] * e[2] <= MaxPixels } }
      \cup EmptyImages

\* A first click on the process button, on any of those images and with any
\* number of colours, dithering on or off.
InitQuant ==
    /\ imageSrc \in QuantImages
    /\ settings \in { [DefaultSettings EXCEPT !.numColors = n, !.dithering = d] :
                        n \in 2..MaxColors, d \in BOOLEAN }
    /\ processedData = NULL
    /\ layers = NoLayers
    /\ userOrderedLayers = NoLayers
    /\ geometryData = NULL
    /\ isLoading = TRUE
    /\ draggedIndex = NoIndex
    /\ pc = "loading"
    /\ job = [imageSrc |-> imageSrc, settings |-> settings, userOrderedLayers |-> NoLayers]
    /\ km = NULL
    /\ used = [uploads |-> 1, runs |-> 1, edits |-> 0, heightEdits |-> 0]
    /\ download = NULL

\* img.onload up to the centroid loop, or up to the exception of
\* getImageData.
ImgOnload ==
    /\ pc = "loading"
    /\ IF getImageDataThrows(job.imageSrc)
       THEN pc' = "uncaught" /\ km' = km
       ELSE pc' = "init" /\ km' = onloadLocals(job.imageSrc)
    /\ UNCHANGED <<imageSrc, settings, processedData, layers, userOrderedLayers,
                   geometryData, isLoading, draggedIndex, job, used>>
    /\ UNCHANGED download

\* One pass of the do-while of the centroid loop: Math.random() yields the
\* sample index; an index drawn before is drawn again.
DrawCentroid ==
    /\ pc = "init"
    /\ \E index \in 1..Len(km.samplePixels) :
          IF index \in km.usedIndices
          THEN UNCHANGED <<km, pc>>
          ELSE /\ km' = [km EXCEPT !.usedIndices = @ \cup {index},
                                   !.centroids = Append(@, km.samplePixels[index])]
               /\ pc' = IF Len(km.centroids) + 1 = job.settings.numColors
                        THEN "iter" ELSE "init"
    /\ UNCHANGED <<imageSrc, settings, processedData, layers, userOrderedLayers,
                   geometryData, isLoading, draggedIndex, job, used>>
    /\ UNCHANGED download

\* One iteration of the clustering loop; the loop ends when no centroid
\* moved or after MAX_ITERATIONS iterations.
KMeansIter ==
    /\ pc = "iter"
    /\ \E reseed \in [emptyClusters(km.samplePixels, km.centroids) -> 1..Len(km.samplePixels)] :
          LET r == updateCentroids(km.samplePixels, km.centroids, reseed)
          IN  /\ km' = [km EXCEPT !.centroids = r.centroids, !.iter = @ + 1]
              /\ pc' = IF r.moved /\ km.iter + 1 < MAX_ITERATIONS THEN "iter" ELSE "assign"
    /\ UNCHANGED <<imageSrc, settings, processedData, layers, userOrderedLayers,
                   geometryData, isLoading, draggedIndex, job, used>>
    /\ UNCHANGED download

\* The rest of img.onload and, on its resolve, the rest of handleProcess.
Resolve ==
    /\ pc = "assign"
    /\ Complete(processedDataOf(km, job.settings))
    /\ UNCHANGED download

NextQuant == ImgOnload \/ DrawCentroid \/ KMeansIter \/ Resolve

SpecQuant == InitQuant /\ [][NextQuant]_vars

(***************************************************************************)
(* Properties of the quantizer.                                            *)
(***************************************************************************)
\* The palette the quantizer has produced when the clustering loop is over:
\* the centroids sorted by luminance.
palette == sortByBrightness(km.centroids)

IsRGB(c) == Len(c) = 3 /\ \A ch \in 1..3 : c[ch] \in 0..255

\* The palette of a processed image, by identity: entry j is the colour of
\* the layer whose id is j - 1.
paletteOf(data) ==
    [j \in 1..Len(data.layers) |-> data.layers[Len(data.layers) + 1 - j].color]

C2_TwoColours ==
    (/\ pc = "idle" /\ processedData # NULL
     /\ Cardinality(Range(imageSrc.pixels)) = 2
     /\ settings.numColors = 2
     /\ ~settings.dithering /\ ~settings.edgePreservation)
    => LET p == paletteOf(processedData)
       IN  /\ Len(p) = 2
           /\ Range(p) = Range(imageSrc.pixels)
           /\ brightness(p[1]) <= brightness(p[2])
           /\ \A a, b \in DOMAIN imageSrc.pixels :
                 (processedData.heightMap[a] = processedData.heightMap[b])
                 <=> (imageSrc.pixels[a] = imageSrc.pixels[b])

(***************************************************************************)
(* Properties of the Height Assigner.                                      *)
(***************************************************************************)
heightsOf(layersArray) == [i \in 1..Len(layersArray) |-> layersArray[i].height]

\* 0.80 mm at position 0 and, from there on, the height before plus 0.40 mm,
\* to two decimals.
ByPosition(h) ==
    \A i \in 1..Len(h) :
        h[i] = IF i = 1 THEN 80 * Hundredth
               ELSE toFixed2(h[i - 1] + 40 * Hundredth)

\* C3: whatever layers the application holds (in any order, with any edited
\* heights and colours), recalculateLayerHeights gives position 0 the height
\* 0.80 and position i the height of position i-1 plus 0.40; so do the
\* initial layers of processImage; every permutation of the layers gets the
\* same heights by position, and the assigner applied to its own output
\* returns the same heights.
C3_HeightAssigner ==
    /\ processedData # NULL => ByPosition(heightsOf(processedData.layers))
    /\ layers # NoLayers =>
          LET out == recalculateLayerHeights(layers)
          IN  /\ Len(out) = Len(layers)
              /\ ByPosition(heightsOf(out))
              /\ \A q \in Permutations(1..Len(layers)) :
                    heightsOf(recalculateLayerHeights([i \in 1..Len(layers) |-> layers[q[i]]]))
                        = heightsOf(out)
              /\ heightsOf(recalculateLayerHeights(out)) = heightsOf(out)

\* Layers out of their initial order, one of which had its height edited,
\* with the heights by position again after a later reorder.
C3_Witness ==
    /\ layers # NoLayers
    /\ Len(layers) >= 3
    /\ used.heightEdits > 0
    /\ layers[1].id # Len(layers) - 1
    /\ heightsOf(layers) = heightsOf(recalculateLayerHeights(layers))

(***************************************************************************)
(* Properties of the layers the application holds.                         *)
(***************************************************************************)
\* a < b as the program's numbers compare: never with NaN.
Less(a, b) == a # NaN /\ b # NaN /\ a < b

\* The Mesh Builder runs whenever processedData and layers are both set.
MeshBuilt == processedData # NULL /\ layers # NoLayers

idsOf(layersArray) == [i \in 1..Len(layersArray) |-> layersArray[i].id]

\* C4: whenever the Mesh Builder runs, the heights of the current layers
\* are strictly increasing with position and all greater than 0.
C4_HeightsIncreasing ==
    MeshBuilt =>
        /\ \A i \in 1..Len(layers) : Less(0, layers[i].height)
        /\ \A i \in 1..(Len(layers) - 1) : Less(layers[i].height, layers[i + 1].height)

\* C5: the ids of the layers are a permutation of 0..N-1, N being the
\* number of layers.
C5_IdsPermutation ==
    layers # NoLayers =>
        /\ {layers[i].id : i \in DOMAIN layers} = 0..(Len(layers) - 1)
        /\ \A i, j \in DOMAIN layers : layers[i].id = layers[j].id => i = j

\* Layers of a second run, out of their initial order and edited.
C5_Witness ==
    /\ layers # NoLayers
    /\ used.runs = 2
    /\ used.edits = MaxEdits
    /\ idsOf(layers) # idsOf(processedData.layers)

\* How often the pair (id, colour) occurs among the layers.
pairCount(layersArray, id, color) ==
    Cardinality({i \in DOMAIN layersArray :
                    layersArray[i].id = id /\ layersArray[i].color = color})

samePairs(a, b) ==
    /\ Len(a) = Len(b)
    /\ \A i \in DOMAIN a :
          pairCount(a, a[i].id, a[i].color) = pairCount(b, a[i].id, a[i].color)

\* A step of one of the three reorder handlers.
ReorderStep ==
    \E index \in 0..(MaxColors - 1) :
        moveLayerUp(index) \/ moveLayerDown(index) \/ handleDrop(index)

\* C6: a reorder step leaves the processed data (index map, image, width,
\* height) as it was and keeps the multiset of (id, colour) pairs of the
\* layers; moveLayerUp at position 0 and moveLayerDown at the last position
\* change nothing.
C6_ReorderFrame ==
    [][ /\ ReorderStep =>
              /\ processedData' = processedData
              /\ samePairs(layers, layers')
              /\ samePairs(userOrderedLayers', layers')
        /\ moveLayerUp(0) => UNCHANGED vars
        /\ (layers # NoLayers /\ moveLayerDown(Len(layers) - 1)) => UNCHANGED vars
      ]_vars

\* Layers that a reorder has taken out of the order of the processed data.
C6_Witness ==
    /\ MeshBuilt
    /\ used.runs = 1
    /\ Len(layers) = MaxColors
    /\ idsOf(layers) # idsOf(processedData.layers)

(***************************************************************************)
(* The Mesh Builder on its own: processed data and layers have just been   *)
(* set, and the effect builds the mesh from them.                          *)
(***************************************************************************)
\* The grids: at most MaxSide pixels a side and MaxCells pixels in all.
MaxSide == 3

MaxCells == 6

\* The heights a layer comes with: NaN, nothing, a quarter of a millionth of
\* a millimetre, 0.8 mm, 1.2 mm.
MeshHeights == {NaN, 0, 1, 2 * normalLayerThickness, 3 * normalLayerThickness}

\* The widths of the model: 100 mm and none.
MeshModelWidths == {DefaultModelWidth, 0}

\* Processed data of two colours over every grid and every index map.
MeshData ==
    UNION { { [layers |-> initialLayers(<<Black, White>>),
               processedImage |-> [i \in 1..(d[1] * d[2]) |->
                                      IF hm[i] = 0 THEN Black ELSE White],
               heightMap |-> hm,
               width |-> d[1],
               height |-> d[2]] : hm \in [1..(d[1] * d[2]) -> {0, 1}] } :
            d \in { e \in (1..MaxSide) \X (1..MaxSide) : e[1] * e[2] <= MaxCells } }

\* The two layers in either order, with any of the heights.
MeshLayers ==
    { [i \in 1..2 |-> [id |-> IF first = 0 THEN i - 1 ELSE 2 - i,
                       color |-> IF (first = 0) = (i = 1) THEN Black ELSE White,
                       hex |-> IF (first = 0) = (i = 1)
                               THEN rgbToHex(0, 0, 0) ELSE rgbToHex(255, 255, 255),
                       height |-> h[i]]] :
        first \in {0, 1}, h \in [1..2 -> MeshHeights] }

InitMesh ==
    /\ imageSrc = NULL
    /\ settings \in { [DefaultSettings EXCEPT !.numColors = 2, !.modelWidth = w] :
                        w \in MeshModelWidths }
    /\ processedData \in MeshData
    /\ layers \in MeshLayers
    /\ userOrderedLayers = layers
    /\ geometryData = NULL
    /\ isLoading = FALSE
    /\ draggedIndex = NoIndex
    /\ pc = "render"
    /\ job = NULL
    /\ km = NULL
    /\ used = [uploads |-> 1, runs |-> 1, edits |-> 0, heightEdits |-> 0]
    /\ download = NULL

\* The effect runs after the render that follows the state change.
RunMeshEffect ==
    /\ pc = "render"
    /\ geometryData' = meshEffect(processedData, layers, settings, geometryData)
    /\ pc' = "idle"
    /\ UNCHANGED <<imageSrc, settings, processedData, layers, userOrderedLayers,
                   isLoading, draggedIndex, job, km, used>>
    /\ UNCHANGED download
NextMesh == RunMeshEffect

SpecMesh == InitMesh /\ [][NextMesh]_vars

(***************************************************************************)
(* Properties of the mesh.                                                 *)
(***************************************************************************)
\* The triangles of a geometry's index list.
trianglesOf(g) ==
    [k \in 1..(Len(g.indices) \div 3) |->
        <<g.indices[3 * k - 2], g.indices[3 * k - 1], g.indices[3 * k]>>]

\* The positions of the layers whose id is the one the index map holds for
\* the pixel i (1-based, row-major).
layersOfPixel(i) == {j \in DOMAIN layers : layers[j].id = processedData.heightMap[i]}

\* C7: for every pixel, the top vertex has the current height of the one
\* layer whose id the index map holds for the pixel, the bottom vertex has
\* z = 0, and neither fallback (position 0, height 0) is taken.
C7_VertexHeights ==
    (MeshBuilt /\ geometryData # NULL) =>
        \A i \in 1..(processedData.width * processedData.height) :
            /\ Cardinality(layersOfPixel(i)) = 1
            /\ \A j \in layersOfPixel(i) :
                  /\ layers[j].height # NaN
                  /\ layers[j].height # 0
                  /\ geometryData.positions[geometryData.topIndices[i] + 1][3] = layers[j].height
            /\ geometryData.positions[geometryData.bottomIndices[i] + 1][3] = 0

\* C8: a W x H grid gives 2(WH - W - H + 1) top triangles, as many bottom
\* triangles, 2*2(W-1) + 2*2(H-1) wall triangles, and an index list of
\* 3(4(W-1)(H-1) + 4(W-1) + 4(H-1)) entries, whatever the heights and the
\* order of the layers.
C8_TriangleCounts ==
    (MeshBuilt /\ geometryData # NULL) =>
        LET W == processedData.width
            H == processedData.height
            top == geometryData.topIndices
            bottom == geometryData.bottomIndices
        IN  /\ Len(topTriangles(top, W, H)) = 2 * (W * H - W - H + 1)
            /\ Len(bottomTriangles(bottom, W, H)) = 2 * (W * H - W - H + 1)
            /\ Len(wallTriangles(top, bottom, W, H)) = 2 * 2 * (W - 1) + 2 * 2 * (H - 1)
            /\ Len(geometryData.indices)
                 = 3 * (4 * (W - 1) * (H - 1) + 4 * (W - 1) + 4 * (H - 1))
            /\ geometryData.indices
                 = Flatten(topTriangles(top, W, H)) \o Flatten(bottomTriangles(bottom, W, H))
                     \o Flatten(wallTriangles(top, bottom, W, H))

\* A 3 x 2 mesh built from layers in swapped order, one without a height.
C8_Witness ==
    /\ pc = "idle" /\ geometryData # NULL
    /\ processedData.width = 3 /\ processedData.height = 2
    /\ layers[1].id = 0
    /\ layers[1].height = NaN
    /\ layers[2].height = 3 * normalLayerThickness

\* C9: the three indices of every triangle are pairwise distinct and each
\* is smaller than the number of vertices.
C9_TrianglesValid ==
    geometryData # NULL =>
        \A k \in 1..(Len(geometryData.indices) \div 3) :
            LET t == trianglesOf(geometryData)[k]
            IN  /\ t[1] # t[2] /\ t[2] # t[3] /\ t[1] # t[3]
                /\ \A c \in 1..3 : t[c] >= 0 /\ t[c] < Len(geometryData.positions)

\* The number of triangles of tris that hold both ends of the edge e.
edgeCount(tris, e) ==
    Cardinality({k \in DOMAIN tris : e \subseteq {tris[k][1], tris[k][2], tris[k][3]}})

\* The undirected edges of a triangle.
edgesOf(t) == {{t[1], t[2]}, {t[2], t[3]}, {t[1], t[3]}}

\* The mesh of a grid is closed: every edge of a triangle is in exactly two
\* triangles; an edge of the top surface is in no bottom triangle and, on
\* the boundary, in one top and one wall triangle; likewise for the bottom
\* surface; the vertical edge at each corner is in one triangle of each of
\* the two walls that meet there.
Closed(g, W, H) ==
    LET all == trianglesOf(g)
        nSurface == 2 * (W - 1) * (H - 1)
        nRow == 2 * (W - 1)
        nCol == 2 * (H - 1)
        tops == SubSeq(all, 1, nSurface)
        bottoms == SubSeq(all, nSurface + 1, 2 * nSurface)
        walls == SubSeq(all, 2 * nSurface + 1, Len(all))
        firstRow == SubSeq(walls, 1, nRow)
        lastRow == SubSeq(walls, nRow + 1, 2 * nRow)
        firstCol == SubSeq(walls, 2 * nRow + 1, 2 * nRow + nCol)
        lastCol == SubSeq(walls, 2 * nRow + nCol + 1, 2 * nRow + 2 * nCol)
        corner(x, y) == {At(g.topIndices, W, x, y), At(g.bottomIndices, W, x, y)}
    IN  /\ \A k \in DOMAIN all : \A e \in edgesOf(all[k]) :
              Cardinality(e) = 2 /\ edgeCount(all, e) = 2
        /\ \A k \in DOMAIN tops : \A e \in edgesOf(tops[k]) :
              /\ edgeCount(bottoms, e) = 0
              /\ edgeCount(tops, e) \in {1, 2}
              /\ edgeCount(tops, e) = 1 => edgeCount(walls, e) = 1
        /\ \A k \in DOMAIN bottoms : \A e \in edgesOf(bottoms[k]) :
              /\ edgeCount(tops, e) = 0
              /\ edgeCount(bottoms, e) \in {1, 2}
              /\ edgeCount(bottoms, e) = 1 => edgeCount(walls, e) = 1
        /\ edgeCount(firstRow, corner(0, 0)) = 1 /\ edgeCount(firstCol, corner(0, 0)) = 1
        /\ edgeCount(firstRow, corner(W - 1, 0)) = 1 /\ edgeCount(lastCol, corner(W - 1, 0)) = 1
        /\ edgeCount(lastRow, corner(0, H - 1)) = 1 /\ edgeCount(firstCol, corner(0, H - 1)) = 1
        /\ edgeCount(lastRow, corner(W - 1, H - 1)) = 1
        /\ edgeCount(lastCol, corner(W - 1, H - 1)) = 1

\* The pixel size the mesh of the current state is built with.
pixelSize == finalPixelSizeOf(settings.modelWidth, processedData.width)

Limbs(n) == <<n % (2^11), (n \div (2^11)) % (2^11), n \div (2^22)>>

\* The product a * b as five signed digit sums in base 2^11.
MulLimbs(a, b) ==
    LET p == Limbs(Abs(a))
        q == Limbs(Abs(b))
        s == IF (a < 0) = (b < 0) THEN 1 ELSE -1
        term(i, j) == IF j \in 1..3 THEN p[i] * q[j] ELSE 0
    IN  [k \in 1..5 |-> s * (term(1, k) + term(2, k - 1) + term(3, k - 2))]

\* The sign (-1, 0, 1) of the number with the signed digit sums d.
SignOfLimbs(d) ==
    LET t2 == d[2] + (d[1] \div (2^11))
        t3 == d[3] + (t2 \div (2^11))
        t4 == d[4] + (t3 \div (2^11))
        t5 == d[5] + (t4 \div (2^11))
    IN  IF t5 < 0 THEN -1
        ELSE IF t5 > 0 THEN 1
        ELSE IF d[1] % (2^11) # 0 \/ t2 % (2^11) # 0 \/ t3 % (2^11) # 0 \/ t4 % (2^11) # 0
             THEN 1 ELSE 0

\* The sign of a * b - c * d.
SignOfDiff(a, b, c, d) ==
    SignOfLimbs([k \in 1..5 |-> MulLimbs(a, b)[k] - MulLimbs(c, d)[k]])

\* normal = cross(v2 - v1, v3 - v1).normalize(), kept as the signs of its
\* three components (normalize keeps them); NaN if a coordinate is NaN.
normalOf(v1, v2, v3) ==
    IF \E c \in 1..3 : v1[c] = NaN \/ v2[c] = NaN \/ v3[c] = NaN
    THEN <<NaN, NaN, NaN>>
    ELSE LET edge1 == [c \in 1..3 |-> v2[c] - v1[c]]
             edge2 == [c \in 1..3 |-> v3[c] - v1[c]]
         IN  <<SignOfDiff(edge1[2], edge2[3], edge1[3], edge2[2]),
               SignOfDiff(edge1[3], edge2[1], edge1[1], edge2[3]),
               SignOfDiff(edge1[1], edge2[2], edge1[2], edge2[1])>>

\* The normal of the triangle t of the geometry g.
facetNormal(g, t) ==
    normalOf(g.positions[t[1] + 1], g.positions[t[2] + 1], g.positions[t[3] + 1])

\* The triangles of the top surface, of the bottom surface and of the four
\* walls (row 0, row H - 1, column 0, column W - 1), in the order emitted.
surfacesOf(g, W, H) ==
    LET all == trianglesOf(g)
        nSurface == 2 * (W - 1) * (H - 1)
        nRow == 2 * (W - 1)
        nCol == 2 * (H - 1)
        walls == SubSeq(all, 2 * nSurface + 1, Len(all))
    IN  [top |-> SubSeq(all, 1, nSurface),
         bottom |-> SubSeq(all, nSurface + 1, 2 * nSurface),
         firstRow |-> SubSeq(walls, 1, nRow),
         lastRow |-> SubSeq(walls, nRow + 1, 2 * nRow),
         firstCol |-> SubSeq(walls, 2 * nRow + 1, 2 * nRow + nCol),
         lastCol |-> SubSeq(walls, 2 * nRow + nCol + 1, 2 * nRow + 2 * nCol)]

\* C11: with a positive pixel size, the normal of every triangle of the top
\* surface has a positive z component and the normal of every triangle of
\* the bottom surface a negative one.
C11_SurfaceNormals ==
    (MeshBuilt /\ geometryData # NULL /\ Less(0, pixelSize)) =>
        LET s == surfacesOf(geometryData, processedData.width, processedData.height)
        IN  /\ \A k \in DOMAIN s.top : facetNormal(geometryData, s.top[k])[3] = 1
            /\ \A k \in DOMAIN s.bottom : facetNormal(geometryData, s.bottom[k])[3] = -1

\* What the windings give instead: every top triangle faces down and every
\* bottom triangle faces up.
C11_Inverted ==
    (MeshBuilt /\ geometryData # NULL /\ Less(0, pixelSize)) =>
        LET s == surfacesOf(geometryData, processedData.width, processedData.height)
        IN  /\ \A k \in DOMAIN s.top : facetNormal(geometryData, s.top[k])[3] = -1
            /\ \A k \in DOMAIN s.bottom : facetNormal(geometryData, s.bottom[k])[3] = 1

\* C12: with a positive pixel size and layer heights all greater than 0,
\* the normal of every wall triangle that is not degenerate points away
\* from the grid: +y on the wall of row 0, -y on the wall of row H - 1,
\* -x on the wall of column 0, +x on the wall of column W - 1.
C12_WallNormals ==
    (/\ MeshBuilt /\ geometryData # NULL
     /\ Less(0, pixelSize)
     /\ \A i \in DOMAIN layers : Less(0, layers[i].height))
    => LET s == surfacesOf(geometryData, processedData.width, processedData.height)
           n(t) == facetNormal(geometryData, t)
           outward(wall, c, sign) ==
               \A k \in DOMAIN wall :
                   n(wall[k]) # <<0, 0, 0>> =>
                       /\ n(wall[k])[c] = sign
                       /\ \A o \in 1..3 \ {c} : n(wall[k])[o] = 0
       IN  /\ outward(s.firstRow, 2, 1)
           /\ outward(s.lastRow, 2, -1)
           /\ outward(s.firstCol, 1, -1)
           /\ outward(s.lastCol, 1, 1)

\* A 3 x 2 mesh over both layers, of heights 0.8 mm and 1.2 mm, whose
\* twelve wall triangles all have a normal.
C12_Witness ==
    /\ pc = "idle" /\ geometryData # NULL
    /\ processedData.width = 3 /\ processedData.height = 2
    /\ processedData.heightMap = <<0, 1, 1, 1, 0, 0>>
    /\ settings.modelWidth = DefaultModelWidth
    /\ heightsOf(layers) = <<2 * normalLayerThickness, 3 * normalLayerThickness>>
    /\ LET s == surfacesOf(geometryData, 3, 2)
           walls == s.firstRow \o s.lastRow \o s.firstCol \o s.lastCol
       IN  /\ Len(walls) = 12
           /\ \A k \in DOMAIN walls : facetNormal(geometryData, walls[k]) # <<0, 0, 0>>

(***************************************************************************)
(* generateSTL and handleDownload.  A byte of the file is [u8 |-> n] when  *)
(* the code writes an integer; the four bytes of a little-endian float32   *)
(* are kept as [f32 |-> value, byte |-> 0..3], the encoding itself is not  *)
(* computed.                                                               *)
(***************************************************************************)
\* The bytes view.setFloat32(offset, value, true) writes.
float32(value) == [k \in 1..4 |-> [f32 |-> value, byte |-> k - 1]]

\* The bytes view.setUint32(offset, n, true) writes.
uint32(n) ==
    <<[u8 |-> n % 256], [u8 |-> (n \div 256) % 256],
      [u8 |-> (n \div 65536) % 256], [u8 |-> (n \div 16777216) % 256]>>

\* An attribute field of one byte.
oneByte(n) == <<[u8 |-> n % 256]>>

\* The bytes view.setUint16(offset, n, true) writes.
uint16(n) == <<[u8 |-> n % 256], [u8 |-> (n \div 256) % 256]>>

\* A run of view.setX(offset, ...); offset += size, the bytes of all of them
\* in order.  A DataView write that does not fit in the buffer throws a
\* RangeError, which ends generateSTL.
setBytes(view, bytes) ==
    IF view.error \/ view.offset + Len(bytes) > Len(view.buffer)
    THEN [view EXCEPT !.error = TRUE]
    ELSE [buffer |-> SubSeq(view.buffer, 1, view.offset) \o bytes
                       \o SubSeq(view.buffer, view.offset + Len(bytes) + 1, Len(view.buffer)),
          offset |-> view.offset + Len(bytes),
          error |-> FALSE]

\* The body of the triangle loop for the (0-based) triangle i.
writeTriangle(view, g, i) ==
    LET v1 == g.positions[g.indices[3 * i + 1] + 1]
        v2 == g.positions[g.indices[3 * i + 2] + 1]
        v3 == g.positions[g.indices[3 * i + 3] + 1]
        normal == normalOf(v1, v2, v3)
    IN  setBytes(view,
        Flatten(<<float32(normal[1]), float32(normal[2]), float32(normal[3]),
                 float32(v1[1]), float32(v1[2]), float32(v1[3]),
                 float32(v2[1]), float32(v2[2]), float32(v2[3]),
                 float32(v3[1]), float32(v3[2]), float32(v3[3]),
                 uint16(0)>>))

RECURSIVE writeTrianglesFrom(_, _, _, _)
writeTrianglesFrom(view, g, i, triangles) ==
    IF i >= triangles THEN view
    ELSE writeTrianglesFrom(writeTriangle(view, g, i), g, i + 1, triangles)

\* A file of the header alone, whatever the geometry.
headerOnly(g) ==
    [blob |-> [bytes |-> [b \in 1..84 |-> [u8 |-> 0]], type |-> "application/sla"],
     offset |-> 84]

\* generateSTL: an error, or the blob and the offset the loop ended at.  A
\* geometry without index is a record without the field indices.
generateSTL(g) ==
    IF "indices" \notin DOMAIN g
    THEN [error |-> "Geometry must have an index"]
    ELSE LET triangles == Len(g.indices) \div 3
             buffer == [b \in 1..(84 + triangles * 50) |-> [u8 |-> 0]]
             counted == setBytes([buffer |-> buffer, offset |-> 80, error |-> FALSE],
                                 uint32(triangles))
             written == writeTrianglesFrom(counted, g, 0, triangles)
         IN  IF written.error
             THEN [error |-> "RangeError"]
             ELSE [blob |-> [bytes |-> written.buffer, type |-> "application/sla"],
                   offset |-> written.offset]

\* handleDownload, a synchronous handler: the button is enabled when there
\* is a geometry and nothing is loading.  The file goes to the browser, or
\* the catch block alerts; finally clears isLoading either way.
HandleDownload ==
    /\ pc = "idle"
    /\ geometryData # NULL /\ ~isLoading
    /\ processedData # NULL
    /\ LET r == generateSTL(geometryData)
       IN  download' = IF "error" \in DOMAIN r
                       THEN [alert |-> "STL generation failed"]
                       ELSE [file |-> r.blob, name |-> "hueforge_model.stl"]
    /\ isLoading' = FALSE
    /\ UNCHANGED <<imageSrc, settings, processedData, layers, userOrderedLayers,
                   geometryData, draggedIndex, pc, job, km, used>>

\* The geometry g without its index.
withoutIndex(g) == [f \in DOMAIN g \ {"indices"} |-> g[f]]

\* The layers of a first run over two colours, and the same with the first
\* height emptied.
STLLayers ==
    { initialLayers(<<Black, White>>),
      withHeight(initialLayers(<<Black, White>>), 0, NaN) }

\* The application after a mesh was built, and the same with a geometry
\* that has no index.
InitSTL ==
    /\ imageSrc = NULL
    /\ settings = [DefaultSettings EXCEPT !.numColors = 2]
    /\ processedData \in MeshData
    /\ layers \in STLLayers
    /\ userOrderedLayers = layers
    /\ \E indexed \in BOOLEAN :
          LET g == buildGeometry(processedData, layers, settings.modelWidth)
          IN  geometryData = IF indexed THEN g ELSE withoutIndex(g)
    /\ isLoading = FALSE
    /\ draggedIndex = NoIndex
    /\ pc = "idle"
    /\ job = NULL
    /\ km = NULL
    /\ used = [uploads |-> 1, runs |-> 1, edits |-> 0, heightEdits |-> 0]
    /\ download = NULL

NextSTL == HandleDownload

SpecSTL == InitSTL /\ [][NextSTL]_vars


\* C13: the file of a geometry with T triangles has 84 + 50T bytes; bytes
\* 0..79 are the header, bytes 80..83 are T as a little-endian uint32, and
\* triangle i is at 84 + 50i: its normal, then its three vertices in
\* winding order, read from the positions at its three indices (three
\* float32 each), then the attribute count 0 in two bytes; the write offset
\* after the last triangle is the length of the buffer.
C13_Layout ==
    (download # NULL /\ "indices" \in DOMAIN geometryData) =>
        /\ "file" \in DOMAIN download
        /\ LET g == geometryData
               T == Len(g.indices) \div 3
               bytes == download.file.bytes
               at(o, n) == SubSeq(bytes, o + 1, o + n)
           IN  /\ Len(bytes) = 84 + 50 * T
               /\ \A o \in 0..79 : bytes[o + 1] = [u8 |-> 0]
               /\ \A o \in 80..83 : "u8" \in DOMAIN bytes[o + 1]
               /\ bytes[81].u8 + 256 * bytes[82].u8 + 65536 * bytes[83].u8
                    + 16777216 * bytes[84].u8 = T
               /\ \A i \in 0..(T - 1) :
                     LET base == 84 + 50 * i
                         v(n) == g.positions[g.indices[3 * i + n] + 1]
                         normal == normalOf(v(1), v(2), v(3))
                     IN  /\ \A c \in 1..3 :
                               at(base + 4 * (c - 1), 4) = float32(normal[c])
                         /\ \A n \in 1..3 : \A c \in 1..3 :
                               at(base + 12 * n + 4 * (c - 1), 4) = float32(v(n)[c])
                         /\ at(base + 48, 2) = <<[u8 |-> 0], [u8 |-> 0]>>
               /\ generateSTL(g).offset = Len(bytes)

\* The file of a 3 x 2 mesh: twenty triangles, 1084 bytes.
C13_Witness ==
    /\ download # NULL /\ "file" \in DOMAIN download
    /\ processedData.width = 3 /\ processedData.height = 2
    /\ processedData.heightMap = <<0, 1, 1, 1, 0, 0>>
    /\ Len(geometryData.indices) = 60
    /\ Len(download.file.bytes) = 1084

\* C14: handleDownload on a geometry without index hands no file to the
\* browser, generateSTL having failed before it wrote a byte, and ends with
\* isLoading false.
C14_NoIndexNoFile ==
    (download # NULL /\ "indices" \notin DOMAIN geometryData) =>
        /\ generateSTL(geometryData) = [error |-> "Geometry must have an index"]
        /\ "file" \notin DOMAIN download
        /\ download = [alert |-> "STL generation failed"]
        /\ ~isLoading

\* A download of the 3 x 2 geometry without its index.
C14_Witness ==
    /\ download # NULL
    /\ "indices" \notin DOMAIN geometryData
    /\ Len(geometryData.positions) > 0
    /\ processedData.width = 3 /\ processedData.height = 2

(***************************************************************************)
(* The mesh effect on processed data whose index map does not fit: it is   *)
(* shorter than width * height, or it holds an id (2) of no layer.  The    *)
(* grids are those of at most MaxCells - 2 cells.                          *)
(***************************************************************************)
MalformedMeshData ==
    UNION { { [layers |-> initialLayers(<<Black, White>>),
               processedImage |-> [i \in 1..(d[1] * d[2]) |-> Black],
               heightMap |-> hm,
               width |-> d[1],
               height |-> d[2]] :
              hm \in { m \in UNION { [1..n -> {0, 1, 2}] : n \in 0..(d[1] * d[2]) } :
                         Len(m) < d[1] * d[2] \/ \E i \in DOMAIN m : m[i] = 2 } } :
            d \in { e \in (1..MaxSide) \X (1..MaxSide) : e[1] * e[2] <= MaxCells - 2 } }

InitMeshAny ==
    /\ imageSrc = NULL
    /\ settings = [DefaultSettings EXCEPT !.numColors = 2]
    /\ processedData \in MeshData \cup MalformedMeshData
    /\ layers \in STLLayers
    /\ userOrderedLayers = layers
    /\ geometryData = NULL
    /\ isLoading = FALSE
    /\ draggedIndex = NoIndex
    /\ pc = "render"
    /\ job = NULL
    /\ km = NULL
    /\ used = [uploads |-> 1, runs |-> 1, edits |-> 0, heightEdits |-> 0]
    /\ download = NULL

SpecMeshAny == InitMeshAny /\ [][NextMesh]_vars

\* The index map of the current state covers the grid and holds ids of
\* current layers only.
IndexMapFits ==
    /\ Len(processedData.heightMap) >= processedData.width * processedData.height
    /\ \A i \in DOMAIN processedData.heightMap :
          \E j \in DOMAIN layers : layers[j].id = processedData.heightMap[i]

\* C15: when the index map is shorter than width * height, or holds a value
\* that is the id of no current layer, the Mesh Builder fails and leaves no
\* mesh.
C15_FailsFast ==
    (pc = "idle" /\ MeshBuilt /\ ~IndexMapFits) => geometryData = NULL

\* What the builder does instead: the pixels the map does not cover, and
\* the pixels of an unknown id, get the height of the layer at position 0.
C15_Substitutes ==
    (pc = "idle" /\ MeshBuilt /\ ~IndexMapFits) =>
        /\ geometryData # NULL
        /\ \A i \in 1..(processedData.width * processedData.height) :
              (i \notin DOMAIN processedData.heightMap \/ processedData.heightMap[i] = 2)
              => geometryData.positions[geometryData.topIndices[i] + 1][3]
                   = heightOrZero(layers[1].height)

(***************************************************************************)
(* Properties of processImage's failures and of the quantizer.             *)
(***************************************************************************)
\* C16: once img.onload has run on an image whose canvas has width 0 or
\* height 0, the failure has been reported: the promise was rejected,
\* handleProcess has cleared isLoading, and there is no result.
C16_ReportedFailure ==
    (job # NULL /\ getImageDataThrows(job.imageSrc) /\ pc # "loading") =>
        /\ pc = "idle"
        /\ ~isLoading
        /\ processedData = NULL

\* What happens instead: the exception leaves the promise pending, and the
\* application stays loading without a result.
C16_StaysLoading ==
    (job # NULL /\ getImageDataThrows(job.imageSrc) /\ pc # "loading") =>
        pc = "uncaught" /\ isLoading /\ processedData = NULL

\* C17: without dithering, for the palette the clustering ended with, the
\* index-map value of a pixel is that of a buffer holding that pixel alone
\* (it depends on the pixel's colour and the palette only): pixels of one
\* colour get one value, reordering the buffer reorders the index map the
\* same way, and a second run of the assignment gives the same index map.
C17_PixelLocal ==
    (pc = "assign" /\ ~job.settings.dithering) =>
        LET sorted == sortByBrightness(km.centroids)
            indexMap(px) == quantizeOnly(px, km.centroids, sorted).heightMap
            first == processedDataOf(km, job.settings).heightMap
            second == processedDataOf(km, job.settings).heightMap
            n == Len(km.pixels)
        IN  /\ Len(first) = n
            /\ \A i \in 1..n : first[i] = indexMap(<<km.pixels[i]>>)[1]
            /\ \A i, j \in 1..n : km.pixels[i] = km.pixels[j] => first[i] = first[j]
            /\ \A order \in Permutations(1..n) :
                  indexMap([i \in 1..n |-> km.pixels[order[i]]])
                    = [i \in 1..n |-> first[order[i]]]
            /\ second = first

\* Three pixels, two of them black, assigned to a palette of two colours.
C17_Witness ==
    /\ pc = "assign" /\ ~job.settings.dithering
    /\ km.pixels = <<Black, White, Black>>
    /\ processedDataOf(km, job.settings).heightMap = <<0, 1, 0>>

(***************************************************************************)
(* The working size: img.onload up to the assignment of canvas.width and   *)
(* canvas.height, over every image size up to MaxSize x MaxSize.  The      *)
(* pixels of these images are left out; the size alone decides the canvas. *)
(***************************************************************************)
MaxSize == 520

InitScale ==
    /\ imageSrc \in { Image(w, h, <<>>) : w \in 1..MaxSize, h \in 1..MaxSize }
    /\ settings = DefaultSettings
    /\ processedData = NULL
    /\ layers = NoLayers
    /\ userOrderedLayers = NoLayers
    /\ geometryData = NULL
    /\ isLoading = TRUE
    /\ draggedIndex = NoIndex
    /\ pc = "loading"
    /\ job = [imageSrc |-> imageSrc, settings |-> settings, userOrderedLayers |-> NoLayers]
    /\ km = NULL
    /\ used = [uploads |-> 1, runs |-> 1, edits |-> 0, heightEdits |-> 0]
    /\ download = NULL

\* canvas.width = width; canvas.height = height.
SizeCanvas ==
    /\ pc = "loading"
    /\ km' = scaledSize(job.imageSrc.width, job.imageSrc.height)
    /\ pc' = "sized"
    /\ UNCHANGED <<imageSrc, settings, processedData, layers, userOrderedLayers,
                   geometryData, isLoading, draggedIndex, job, used, download>>

NextScale == SizeCanvas

SpecScale == InitScale /\ [][NextScale]_vars

\* r is x * MAX_DIM / larger rounded to the nearest whole number, halves up.
IsRounded(r, x, larger) ==
    /\ 2 * r * larger <= 2 * x * MAX_DIM + larger
    /\ 2 * x * MAX_DIM + larger < 2 * (r + 1) * larger

\* C18: for a source of w x h pixels, w, h >= 1, neither side of the
\* working size exceeds 256; when both w and h are at most 256 the working
\* size is w x h; otherwise the larger side becomes 256 and the other side
\* becomes round(other * 256 / larger).
C18_WorkingSize ==
    pc = "sized" =>
        LET w == job.imageSrc.width
            h == job.imageSrc.height
        IN  /\ km.width <= 256 /\ km.height <= 256
            /\ (w <= 256 /\ h <= 256) => (km.width = w /\ km.height = h)
            /\ (w > 256 /\ w >= h) => (km.width = 256 /\ IsRounded(km.height, h, w))
            /\ (h > 256 /\ h >= w) => (km.height = 256 /\ IsRounded(km.width, w, h))

\* A 512 x 3 image: the height 1.5 is rounded to 2.
C18_Witness ==
    /\ pc = "sized"
    /\ job.imageSrc.width = 512 /\ job.imageSrc.height = 3
    /\ km = [width |-> 256, height |-> 2]

\* processImage under a scheduler that lets img.onload go on: a step that
\* changes the state is taken whenever one stays possible (a draw of an
\* index that was drawn before changes nothing).
SpecQuantFair == SpecQuant /\ WF_vars(NextQuant)

\* C19: on a buffer of at least one pixel, with numColors in 2..MaxColors,
\* the centroid loop, once entered, is left with numColors distinct sample
\* indices drawn, and the clustering loop ends.
C19_Terminates == (pc = "init") ~> (pc = "assign")

\* The clustering loop by itself does end, after at most MAX_ITERATIONS
\* iterations, with as many centroids as were asked for.
C19_IterationCap ==
    pc \in {"iter", "assign"} =>
        /\ km.iter <= 30
        /\ Len(km.centroids) = job.settings.numColors
        /\ Cardinality(km.usedIndices) = job.settings.numColors

\* The centroid loop with every sample index drawn and centroids still
\* missing: each further draw is of a used index.
C19_OutOfSamples ==
    /\ pc = "init"
    /\ Len(km.pixels) >= 1
    /\ km.usedIndices = 1..Len(km.samplePixels)
    /\ Len(km.centroids) < job.settings.numColors

(***************************************************************************)
(* The dithering scan pixel by pixel: km holds the working size, the       *)
(* pixels, the palette (centroids) and, in acc, pixelsFloat (buf), the     *)
(* index map and the recoloured image as far as the scan has come.         *)
(***************************************************************************)
\* The colours of the ditherer's inputs, and its palettes (unsorted).
DitherColors == {Black, Grey, White}

DitherPalettes == { <<Black, White>>, <<White, Grey>> }

DitherImages ==
    UNION { { Image(d[1], d[2], px) : px \in [1..(d[1] * d[2]) -> DitherColors] } :
              d \in { e \in (1..MaxSide) \X (1..MaxSide) : e[1] * e[2] <= MaxCells } }

\* img.onload at the start of the dithering loops.
InitDither ==
    /\ imageSrc \in DitherImages
    /\ settings \in { [DefaultSettings EXCEPT !.numColors = 2, !.edgePreservation = e] :
                        e \in BOOLEAN }
    /\ processedData = NULL
    /\ layers = NoLayers
    /\ userOrderedLayers = NoLayers
    /\ geometryData = NULL
    /\ isLoading = TRUE
    /\ draggedIndex = NoIndex
    /\ pc = "dither"
    /\ job = [imageSrc |-> imageSrc, settings |-> settings, userOrderedLayers |-> NoLayers]
    /\ \E centroids \in DitherPalettes :
          km = [width |-> imageSrc.width, height |-> imageSrc.height,
                pixels |-> imageSrc.pixels, centroids |-> centroids,
                acc |-> [buf |-> [p \in 1..Len(imageSrc.pixels) |->
                                    <<16 * imageSrc.pixels[p][1], 16 * imageSrc.pixels[p][2],
                                      16 * imageSrc.pixels[p][3]>>],
                         heightMap |-> <<>>, image |-> <<>>]]
    /\ used = [uploads |-> 1, runs |-> 1, edits |-> 0, heightEdits |-> 0]
    /\ download = NULL

\* The body of the loops at the next pixel.
DitherStep ==
    /\ pc = "dither"
    /\ LET i == Len(km.acc.heightMap)
       IN  /\ km' = [km EXCEPT !.acc = ditherPixel(km.acc, km.pixels, km.width, km.height, i,
                                                   km.centroids, sortByBrightness(km.centroids),
                                                   job.settings.edgePreservation)]
           /\ pc' = IF i + 1 = Len(km.pixels) THEN "dithered" ELSE "dither"
    /\ UNCHANGED <<imageSrc, settings, processedData, layers, userOrderedLayers,
                   geometryData, isLoading, draggedIndex, job, used, download>>

NextDither == DitherStep

SpecDither == InitDither /\ [][NextDither]_vars

\* The (0-based) indices of the pixels (x + 1, y), (x - 1, y + 1), (x, y + 1)
\* and (x + 1, y + 1) that lie in the grid.
ForwardNeighbours(width, height, x, y) ==
    { ty * width + tx :
        <<tx, ty>> \in { t \in {<<x + 1, y>>, <<x - 1, y + 1>>, <<x, y + 1>>, <<x + 1, y + 1>>} :
                           t[1] >= 0 /\ t[1] < width /\ t[2] >= 0 /\ t[2] < height } }

\* C20: processing the pixel (x, y) changes the working buffer only at
\* (x + 1, y), (x - 1, y + 1), (x, y + 1) and (x + 1, y + 1), where these lie
\* in the grid; it changes no pixel at or before (x, y) in row-major order,
\* none across the end of a row, and not the palette; it records the index
\* of the pixel (x, y) and leaves the indices recorded before as they are.
C20_ForwardOnly ==
    [][DitherStep =>
        LET i == Len(km.acc.heightMap)
            x == i % km.width
            y == i \div km.width
            changed == {j \in 0..(Len(km.pixels) - 1) : km'.acc.buf[j + 1] # km.acc.buf[j + 1]}
        IN  /\ changed \subseteq ForwardNeighbours(km.width, km.height, x, y)
            /\ \A j \in changed : j > i /\ j < km.width * km.height
            /\ \A j \in changed : (j \div km.width = y) => (j % km.width = x + 1)
            /\ \A j \in changed : (j \div km.width = y + 1) =>
                                      (j % km.width) \in {x - 1, x, x + 1}
            /\ DOMAIN km'.acc.buf = DOMAIN km.acc.buf
            /\ km'.centroids = km.centroids
            /\ Len(km'.acc.heightMap) = i + 1
            /\ SubSeq(km'.acc.heightMap, 1, i) = km.acc.heightMap
    ]_vars

\* The scan of a 3 x 2 image has passed the end of the first row, and the
\* error of the grey pixel there has reached the two white pixels below it
\* and not the first pixel of the second row.
C20_Witness ==
    /\ pc = "dither"
    /\ km.width = 3 /\ km.height = 2
    /\ km.pixels = <<Black, Black, Grey, White, White, White>>
    /\ km.centroids = <<Black, White>>
    /\ ~job.settings.edgePreservation
    /\ Len(km.acc.heightMap) = 3
    /\ km.acc.buf[4] = <<4080, 4080, 4080>>
    /\ km.acc.buf[5] # <<4080, 4080, 4080>>
    /\ km.acc.buf[6] # <<4080, 4080, 4080>>

(***************************************************************************)
(* Properties of the result of processImage.                               *)
(***************************************************************************)
\* The positions of the centroids at the least distance from color.
Nearest(color, centroids) ==
    {c \in DOMAIN centroids :
        \A d \in DOMAIN centroids :
            colorDistanceSq(color, centroids[c]) <= colorDistanceSq(color, centroids[d])}

\* The first of them in scan order.
FirstNearest(color, centroids) ==
    CHOOSE c \in Nearest(color, centroids) : \A d \in Nearest(color, centroids) : c <= d

\* The place the stable sort by luminance gives to the centroid at position
\* c (0-based, as the index map counts).
SortedPlace(centroids, c) ==
    Cardinality({d \in DOMAIN centroids :
                    \/ brightness(centroids[d]) < brightness(centroids[c])
                    \/ brightness(centroids[d]) = brightness(centroids[c]) /\ d < c})

\* The assignment of every sample in the clustering loop takes the first of
\* the nearest centroids.
SamplesTakeFirst ==
    pc = "iter" =>
        \A p \in DOMAIN km.samplePixels :
            sampleAssignmentsOf(km.samplePixels, km.centroids)[p]
              = FirstNearest(km.samplePixels[p], km.centroids)

C22_ColorFrame ==
    [][\A id \in 0..(MaxColors - 1), hexColor \in ColorInputs :
          updateLayerColor(id, hexColor) =>
              LET rgb == <<16 * hexColor[1] + hexColor[2], 16 * hexColor[3] + hexColor[4],
                           16 * hexColor[5] + hexColor[6]>>
                  changed(old, new) ==
                      /\ Len(new) = Len(old)
                      /\ \A i \in DOMAIN old :
                            /\ new[i].id = old[i].id
                            /\ new[i].height = old[i].height
                            /\ DOMAIN new[i] = DOMAIN old[i]
                            /\ old[i].id # id => new[i] = old[i]
                            /\ old[i].id = id => new[i].color = rgb /\ new[i].hex = hexColor
              IN  /\ changed(layers, layers')
                  /\ changed(userOrderedLayers, userOrderedLayers')
                  /\ processedData' = processedData
                  /\ UNCHANGED <<imageSrc, settings, isLoading, draggedIndex>>
      ]_vars

\* Layers of which exactly one has been made blue, in both arrays, while the
\* processed data still hold the colour it had.
C22_Witness ==
    /\ MeshBuilt
    /\ Len(layers) >= 2
    /\ Cardinality({i \in DOMAIN layers : layers[i].color = <<0, 0, 255>>}) = 1
    /\ \A i \in DOMAIN layers :
          /\ userOrderedLayers[i].color = layers[i].color
          /\ layers[i].color = <<0, 0, 255>> => layers[i].hex = <<0, 0, 0, 0, 15, 15>>
    /\ \A i \in DOMAIN processedData.layers : processedData.layers[i].color # <<0, 0, 255>>

\* The layers a completing run leaves, told from the order in `order`: with
\* as many new layers as `order` has, the ids and the heights of `order` by
\* position and the new palette colour of each id; otherwise the new layers.
CompletesFrom(order) ==
    IF Len(order) = Len(processedData'.layers)
    THEN /\ idsOf(layers') = idsOf(order)
         /\ heightsOf(layers') = heightsOf(order)
         /\ \A i \in DOMAIN layers' :
               layers'[i].color = paletteOf(processedData')[layers'[i].id + 1]
    ELSE layers' = processedData'.layers

\* C23: when a run completes, the layers follow the user's order as it is at
\* that moment, a reorder made while the run was in flight included.
C23_OrderAtCompletion ==
    [][(ProcessImage /\ pc' = "idle") => CompletesFrom(userOrderedLayers)]_vars

\* What the run follows instead: the order handleProcess captured when the
\* button was clicked.
C23_OrderAtClick ==
    [][(ProcessImage /\ pc' = "idle") => CompletesFrom(job.userOrderedLayers)]_vars

\* C24: in what processImage resolves with, dithering on or off, every
\* index-map value is the id of exactly one layer, whose colour is the
\* colour written for that pixel in the recoloured image; the layers are in
\* descending luminance order, and the layer at position i has the id
\* N - 1 - i and the colour of entry N - 1 - i of the sorted palette.
C24_IndexMapMatchesLayers ==
    pc = "assign" =>
        LET data == processedDataOf(km, job.settings)
            N == Len(data.layers)
        IN  /\ N = Len(palette)
            /\ Len(data.heightMap) = Len(km.pixels)
            /\ Len(data.processedImage) = Len(km.pixels)
            /\ \A p \in DOMAIN data.heightMap :
                  /\ Cardinality({j \in 1..N : data.layers[j].id = data.heightMap[p]}) = 1
                  /\ \A j \in 1..N :
                        data.layers[j].id = data.heightMap[p]
                        => data.layers[j].color = data.processedImage[p]
            /\ \A i \in 0..(N - 1) :
                  /\ data.layers[i + 1].id = N - 1 - i
                  /\ data.layers[i + 1].color = palette[(N - 1 - i) + 1]
            /\ \A i \in 1..(N - 1) :
                  brightness(data.layers[i].color) >= brightness(data.layers[i + 1].color)

\* A dithered result over a palette that holds black twice.
C24_Witness ==
    /\ pc = "assign" /\ job.settings.dithering
    /\ palette = <<Black, Black, White>>
    /\ km.pixels = <<Black, White, Black>>
    /\ processedDataOf(km, job.settings).heightMap = <<1, 2, 1>>

\* C25: for a source of w x h pixels, w, h >= 1, both sides of the working
\* size are at least 1.
C25_AtLeastOne ==
    pc = "sized" => (km.width >= 1 /\ km.height >= 1)

\* What holds instead: the smaller side of the working size is 0 exactly
\* when the larger side of the source is more than 512 times the smaller.
C25_ZeroWhenThin ==
    pc = "sized" =>
        LET w == job.imageSrc.width
            h == job.imageSrc.height
        IN  /\ km.height = 0 <=> w > 2 * MAX_DIM * h
            /\ km.width = 0 <=> h > 2 * MAX_DIM * w

=============================================================================
